---- MODULE Spec2Model ----
(***************************************************************************)
(* Model of trie<T, KeyType> (src/trie.hpp): a prefix tree of heap nodes    *)
(* with parent back-references, sorted children, a sentinel "end" node, a   *)
(* bidirectional search_iterator and the container operations.              *)
(*                                                                          *)
(* Heap nodes are records addressed by integer node ids (addresses).  A     *)
(* root gets the number of a free tree slot; `new` of a child returns       *)
(* parent * (MaxSymbol + 1) + symbol.  Wherever the code allocates, no live *)
(* node has that id, so the id is a fresh address.  No operation decodes an *)
(* id: parents and children are followed through the fields.                *)
(***************************************************************************)
EXTENDS Integers, Sequences, FiniteSets, TLC

VARIABLES heap, cont, it, err, gv, ktDefault, copies

vars == <<heap, cont, it, err, gv, ktDefault, copies>>

(* ---------------------------------------------------------------- bounds *)
MaxKeyLen == 3
MaxNodes == 3
MaxNodesCopy == 2
MaxSize == 3
MaxCopies == 2

(* ------------------------------------------------------------- constants *)
\* std::numeric_limits<KeyType>::max(): the sentinel's symbol.
MaxSymbol == 3
\* value-initialised KeyType and T of a fresh node's data_.
DefaultSymbol == 0
DefaultValue == 0

Symbols == 1..(MaxSymbol - 1)
Values == {1, 2}
AllValues == Values \cup {DefaultValue}
Containers == {"A", "B"}
Slots == {1, 2, 3}

Null == 0

RECURSIVE SeqsUpTo(_, _)
SeqsUpTo(S, n) ==
    IF n = 0 THEN {<<>>}
    ELSE LET shorter == SeqsUpTo(S, n - 1)
         IN  shorter \cup {Append(s, x) : s \in {q \in shorter : Len(q) = n - 1}, x \in S}

\* key_string arguments the callers pass: real symbols only, the empty key included.
Keys == SeqsUpTo(Symbols, MaxKeyLen)
NonEmptyKeys == Keys \ {<<>>}

(* ------------------------------------------------------------ trie_node *)
NewNodeRec(sym, parent) ==
    [sym |-> sym, val |-> DefaultValue, is_leaf |-> FALSE,
     parent |-> parent, children |-> <<>>]

\* The address `new trie_node` returns for a child of `parent` with symbol `sym`.
NewId(parent, sym) == parent * (MaxSymbol + 1) + sym

RECURSIVE BinSearch(_, _, _, _, _)
BinSearch(h, kids, key_char, left, right) ==
    IF left < right
    THEN LET mid == left + ((right - left) \div 2)
         IN  IF h[kids[mid]].sym = key_char THEN mid
             ELSE IF h[kids[mid]].sym > key_char
                  THEN BinSearch(h, kids, key_char, left, mid)
                  ELSE BinSearch(h, kids, key_char, mid + 1, right)
    ELSE Len(kids) + 1

\* Index of the child of n with symbol key_char; Len(children)+1 is children_.end().
find_by_key(h, n, key_char) ==
    BinSearch(h, h[n].children, key_char, 1, Len(h[n].children) + 1)

IsEnd(h, n, idx) == idx = Len(h[n].children) + 1

Swap(s, i, j) == [s EXCEPT ![i] = s[j], ![j] = s[i]]

RECURSIVE Bubble(_, _, _)
Bubble(h, kids, r) ==
    IF r = 1 THEN kids
    ELSE IF h[kids[r]].sym > h[kids[r - 1]].sym THEN kids
    ELSE Bubble(h, Swap(kids, r, r - 1), r - 1)

\* Variant of push_child that appends without moving the child into place.
push_child_Append(h, n, child) == Append(h[n].children, child)

\* children_ of n after n->push_child(child); child is already a node of h.
push_child(h, n, child) ==
    LET appended == Append(h[n].children, child)
    IN  Bubble(h, appended, Len(appended))

RECURSIVE Subtree(_, _)
Subtree(h, n) ==
    {n} \cup UNION {Subtree(h, h[n].children[i]) : i \in 1..Len(h[n].children)}

\* delete n: the destructor deletes the children recursively.
DeleteNode(h, n) == [m \in (DOMAIN h \ Subtree(h, n)) |-> h[m]]

RemoveAt(s, i) == SubSeq(s, 1, i - 1) \o SubSeq(s, i + 1, Len(s))

IndexOf(s, x) ==
    IF \E i \in 1..Len(s) : s[i] = x
    THEN CHOOSE i \in 1..Len(s) : s[i] = x /\ \A j \in 1..(i - 1) : s[j] # x
    ELSE Len(s) + 1

\* n->remove_child(child): erasing children_.end() when child is absent is undefined.
remove_child(h, n, child_to_remove) ==
    LET found == IndexOf(h[n].children, child_to_remove)
    IN  IF found = Len(h[n].children) + 1
        THEN [ub |-> TRUE, heap |-> h]
        ELSE [ub |-> FALSE,
              heap |-> DeleteNode([h EXCEPT ![n].children = RemoveAt(@, found)],
                                  child_to_remove)]

\* create_end_prefix(): appends the sentinel to top_->children_ (no sort).
create_end_prefix(h, top) ==
    LET end == NewId(top, MaxSymbol)
    IN  [h EXCEPT ![top].children = Append(@, end)] @@
        (end :> [NewNodeRec(MaxSymbol, top) EXCEPT !.is_leaf = TRUE])

\* trie(): a root and the sentinel, in tree slot `slot`.
NewTrie(h, slot) ==
    create_end_prefix(h @@ (slot :> NewNodeRec(DefaultSymbol, Null)), slot)

(* ----------------------------------------------------- container queries *)
EndOf(h, top) == h[top].children[Len(h[top].children)]

Empty(h, top) == Len(h[top].children) = 1

RECURSIVE FrontDescend_StopAtLeaf(_, _)
\* Variant of the loop of begin() that stops at the first leaf it meets.
FrontDescend_StopAtLeaf(h, n) ==
    IF h[n].children = <<>> \/ h[n].is_leaf THEN n
    ELSE FrontDescend_StopAtLeaf(h, h[n].children[1])

RECURSIVE FrontDescend(_, _)
FrontDescend(h, n) ==
    IF h[n].children = <<>> THEN n ELSE FrontDescend(h, h[n].children[1])

Begin(h, top) == IF Empty(h, top) THEN EndOf(h, top) ELSE FrontDescend(h, top)

RECURSIVE FindWalk_AnyNode(_, _, _, _, _)
\* Variant of FindWalk that forgets to test the leaf flag of the last node.
FindWalk_AnyNode(h, top, node, key, i) ==
    IF i > Len(key) THEN EndOf(h, top)
    ELSE LET found == find_by_key(h, node, key[i])
         IN  IF IsEnd(h, node, found) THEN EndOf(h, top)
             ELSE LET child == h[node].children[found]
                  IN  IF i = Len(key) THEN child
                      ELSE FindWalk_AnyNode(h, top, child, key, i + 1)

RECURSIVE FindWalk(_, _, _, _, _)
FindWalk(h, top, node, key, i) ==
    IF i > Len(key) THEN EndOf(h, top)
    ELSE LET found == find_by_key(h, node, key[i])
         IN  IF IsEnd(h, node, found) THEN EndOf(h, top)
             ELSE LET child == h[node].children[found]
                  IN  IF h[child].is_leaf /\ i = Len(key) THEN child
                      ELSE FindWalk(h, top, child, key, i + 1)

\* find(key): the node the returned iterator refers to.
Find(h, top, key) == FindWalk(h, top, top, key, 1)

\* get_value(prefix, container): the returned bool and the caller's `container`.
get_value(h, top, prefix, container) ==
    LET found_iter == Find(h, top, prefix)
    IN  IF found_iter = EndOf(h, top)
        THEN [ret |-> FALSE, out |-> container]
        ELSE [ret |-> TRUE, out |-> h[found_iter].val]

RECURSIVE KeyClimb(_, _, _)
KeyClimb(h, node, key_str) ==
    IF h[node].parent = Null THEN key_str
    ELSE KeyClimb(h, h[node].parent, <<h[node].sym>> \o key_str)

\* search_iterator::key()
KeyOf(h, node) == KeyClimb(h, node, <<>>)

(* ---------------------------------------------------------------- insert *)
RECURSIVE Match(_, _, _, _)
\* The matching phase: the deepest node reached and the first unmatched index.
Match(h, node, key, i) ==
    IF i > Len(key) THEN [node |-> node, i |-> i]
    ELSE LET found == find_by_key(h, node, key[i])
         IN  IF IsEnd(h, node, found) THEN [node |-> node, i |-> i]
             ELSE Match(h, h[node].children[found], key, i + 1)

RECURSIVE Create(_, _, _, _)
\* The creation loop: one new non-leaf child per remaining symbol.
Create(h, node, key, i) ==
    IF i > Len(key) THEN [heap |-> h, node |-> node]
    ELSE LET new_child == NewId(node, key[i])
             h1 == h @@ (new_child :> NewNodeRec(key[i], node))
             h2 == [h1 EXCEPT ![node].children = push_child(h1, node, new_child)]
         IN  Create(h2, new_child, key, i + 1)

\* Variant of insert that promotes an internal node without storing the value.
insert_NoValueOnPromote(h, top, size, key, value) ==
    IF key = <<>>
    THEN [err |-> "EmptyKey", heap |-> h, size |-> size, node |-> Null]
    ELSE LET m == Match(h, top, key, 1)
         IN  IF m.i > Len(key)
             THEN IF ~h[m.node].is_leaf
                  THEN [err |-> "none",
                        heap |-> [h EXCEPT ![m.node].is_leaf = TRUE],
                        size |-> size + 1, node |-> m.node]
                  ELSE [err |-> "DuplicateKey", heap |-> h, size |-> size, node |-> Null]
             ELSE LET c == Create(h, m.node, key, m.i)
                  IN  [err |-> "none",
                       heap |-> [c.heap EXCEPT ![c.node].is_leaf = TRUE,
                                               ![c.node].val = value],
                       size |-> size + 1, node |-> c.node]

\* Variant of insert that overwrites the value of a stored key instead of
\* throwing.
insert_Overwrite(h, top, size, key, value) ==
    IF key = <<>>
    THEN [err |-> "EmptyKey", heap |-> h, size |-> size, node |-> Null]
    ELSE LET m == Match(h, top, key, 1)
         IN  IF m.i > Len(key)
             THEN [err |-> "none",
                   heap |-> [h EXCEPT ![m.node].val = value,
                                      ![m.node].is_leaf = TRUE],
                   size |-> IF h[m.node].is_leaf THEN size ELSE size + 1,
                   node |-> m.node]
             ELSE LET c == Create(h, m.node, key, m.i)
                  IN  [err |-> "none",
                       heap |-> [c.heap EXCEPT ![c.node].is_leaf = TRUE,
                                               ![c.node].val = value],
                       size |-> size + 1, node |-> c.node]

\* Variant of insert without the test for the empty key: the key ends at the
\* root, which is promoted.
insert_EmptyKeyAtRoot(h, top, size, key, value) ==
    LET m == Match(h, top, key, 1)
    IN  IF m.i > Len(key)
        THEN IF ~h[m.node].is_leaf
             THEN [err |-> "none",
                   heap |-> [h EXCEPT ![m.node].val = value,
                                      ![m.node].is_leaf = TRUE],
                   size |-> size + 1, node |-> m.node]
             ELSE [err |-> "DuplicateKey", heap |-> h, size |-> size, node |-> Null]
        ELSE LET c == Create(h, m.node, key, m.i)
             IN  [err |-> "none",
                  heap |-> [c.heap EXCEPT ![c.node].is_leaf = TRUE,
                                          ![c.node].val = value],
                  size |-> size + 1, node |-> c.node]

\* insert({key, value}) on the tree rooted at top.
insert(h, top, size, key, value) ==
    IF key = <<>>
    THEN [err |-> "EmptyKey", heap |-> h, size |-> size, node |-> Null]
    ELSE LET m == Match(h, top, key, 1)
         IN  IF m.i > Len(key)
             THEN IF ~h[m.node].is_leaf
                  THEN [err |-> "none",
                        heap |-> [h EXCEPT ![m.node].val = value,
                                           ![m.node].is_leaf = TRUE],
                        size |-> size + 1, node |-> m.node]
                  ELSE [err |-> "DuplicateKey", heap |-> h, size |-> size, node |-> Null]
             ELSE LET c == Create(h, m.node, key, m.i)
                  IN  [err |-> "none",
                       heap |-> [c.heap EXCEPT ![c.node].is_leaf = TRUE,
                                               ![c.node].val = value],
                       size |-> size + 1, node |-> c.node]

(* ----------------------------------------------------------------- erase *)
RECURSIVE EraseClimb_PastLeaf(_, _)
\* Variant of EraseClimb that does not stop below a parent that is a leaf.
EraseClimb_PastLeaf(h, node) ==
    IF h[node].parent = Null THEN [ub |-> TRUE, node |-> node]
    ELSE LET p == h[node].parent
         IN  IF Len(h[p].children) <= 1
             THEN EraseClimb_PastLeaf(h, p)
             ELSE [ub |-> FALSE, node |-> node]

\* Variant of EraseClimb that does not climb: only the leaf itself is removed.
EraseClimb_NoClimb(h, node) ==
    IF h[node].parent = Null THEN [ub |-> TRUE, node |-> node]
    ELSE [ub |-> FALSE, node |-> node]

\* Variant of EraseClimb that climbs one level at most.
EraseClimb_OneStep(h, node) ==
    IF h[node].parent = Null THEN [ub |-> TRUE, node |-> node]
    ELSE LET p == h[node].parent
         IN  IF h[p].parent # Null /\ ~h[p].is_leaf /\ Len(h[p].children) <= 1
             THEN [ub |-> FALSE, node |-> p]
             ELSE [ub |-> FALSE, node |-> node]

RECURSIVE EraseClimb(_, _)
\* The pruning climb; node->parent_ is dereferenced before it is compared with
\* nullptr, so a null parent is undefined behaviour ("UB").
EraseClimb(h, node) ==
    IF h[node].parent = Null THEN [ub |-> TRUE, node |-> node]
    ELSE LET p == h[node].parent
         IN  IF ~h[p].is_leaf /\ Len(h[p].children) <= 1
             THEN EraseClimb(h, p)
             ELSE [ub |-> FALSE, node |-> node]

\* erase(iter) with iter.node_ = node.
erase(h, size, node) ==
    IF h[node].children # <<>>
    THEN [ub |-> FALSE, heap |-> [h EXCEPT ![node].is_leaf = FALSE], size |-> size - 1]
    ELSE LET c == EraseClimb(h, node)
         IN  IF c.ub THEN [ub |-> TRUE, heap |-> h, size |-> size]
             ELSE LET r == remove_child(h, h[c.node].parent, c.node)
                  IN  [ub |-> r.ub, heap |-> r.heap, size |-> size - 1]

(* ------------------------------------------------------- search_iterator *)
RECURSIVE AdvanceWalk(_, _, _, _)
AdvanceWalk(h, node, sub_key, i) ==
    IF i > Len(sub_key) THEN node
    ELSE LET found == find_by_key(h, node, sub_key[i])
         IN  IF IsEnd(h, node, found) THEN Null
             ELSE AdvanceWalk(h, h[node].children[found], sub_key, i + 1)

\* Variant of advance that leaves the leaf flag of the old node set.
advance_KeepOldLeaf(h, node_, sub_key) ==
    IF sub_key = <<>> THEN [err |-> "EmptySubkey", heap |-> h, node |-> node_]
    ELSE LET node == AdvanceWalk(h, node_, sub_key, 1)
         IN  IF node = Null THEN [err |-> "NoSuchPrefix", heap |-> h, node |-> node_]
             ELSE [err |-> "none",
                   heap |-> [h EXCEPT ![node].is_leaf = TRUE],
                   node |-> node]

\* Variant of advance that clears the old leaf flag before it walks the subkey.
advance_ClearBeforeWalk(h, node_, sub_key) ==
    IF sub_key = <<>> THEN [err |-> "EmptySubkey", heap |-> h, node |-> node_]
    ELSE LET node == AdvanceWalk(h, node_, sub_key, 1)
             h1 == [h EXCEPT ![node_].is_leaf = FALSE]
         IN  IF node = Null THEN [err |-> "NoSuchPrefix", heap |-> h1, node |-> node_]
             ELSE [err |-> "none",
                   heap |-> [h1 EXCEPT ![node].is_leaf = TRUE],
                   node |-> node]

\* it.advance(sub_key) with it.node_ = node_.
advance(h, node_, sub_key) ==
    IF sub_key = <<>> THEN [err |-> "EmptySubkey", heap |-> h, node |-> node_]
    ELSE LET node == AdvanceWalk(h, node_, sub_key, 1)
         IN  IF node = Null THEN [err |-> "NoSuchPrefix", heap |-> h, node |-> node_]
             ELSE [err |-> "none",
                   heap |-> [[h EXCEPT ![node_].is_leaf = FALSE]
                                EXCEPT ![node].is_leaf = TRUE],
                   node |-> node]

RECURSIVE IncDescend(_, _)
\* Second loop of operator++: front() of an empty children_ is undefined.
IncDescend(h, node) ==
    IF h[node].is_leaf /\ h[node].children = <<>> THEN [st |-> "none", node |-> node]
    ELSE IF h[node].children = <<>> THEN [st |-> "UB", node |-> node]
    ELSE IncDescend(h, h[node].children[1])

RECURSIVE IncClimb_SkipLeafAncestor(_, _, _)
\* Variant of IncClimb that climbs past an ancestor that is a leaf.
IncClimb_SkipLeafAncestor(h, node_, node) ==
    IF h[node].parent = Null THEN [st |-> "UB", node |-> node]
    ELSE LET p == h[node].parent
         IN  IF Len(h[p].children) > 1
             THEN LET found == find_by_key(h, p, h[node].sym)
                  IN  IF IsEnd(h, p, found) THEN [st |-> "UB", node |-> node]
                      ELSE IF IsEnd(h, p, found + 1)
                           THEN IncClimb_SkipLeafAncestor(h, node_, p)
                      ELSE IncDescend(h, h[p].children[found + 1])
             ELSE IncClimb_SkipLeafAncestor(h, node_, p)

RECURSIVE IncClimb_NoDescend(_, _, _)
\* Variant of IncClimb that returns the next sibling without descending into it.
IncClimb_NoDescend(h, node_, node) ==
    IF h[node].is_leaf /\ node # node_ THEN [st |-> "none", node |-> node]
    ELSE IF h[node].parent = Null THEN [st |-> "UB", node |-> node]
    ELSE LET p == h[node].parent
         IN  IF Len(h[p].children) > 1
             THEN LET found == find_by_key(h, p, h[node].sym)
                  IN  IF IsEnd(h, p, found) THEN [st |-> "UB", node |-> node]
                      ELSE IF IsEnd(h, p, found + 1)
                           THEN IncClimb_NoDescend(h, node_, p)
                      ELSE [st |-> "none", node |-> h[p].children[found + 1]]
             ELSE IncClimb_NoDescend(h, node_, p)

RECURSIVE IncClimb(_, _, _)
\* First loop of operator++: a leaf ancestor is returned on the way up; the next
\* sibling, once found, is descended into.
IncClimb(h, node_, node) ==
    IF h[node].is_leaf /\ node # node_ THEN [st |-> "none", node |-> node]
    ELSE IF h[node].parent = Null THEN [st |-> "UB", node |-> node]
    ELSE LET p == h[node].parent
         IN  IF Len(h[p].children) > 1
             THEN LET found == find_by_key(h, p, h[node].sym)
                  IN  IF IsEnd(h, p, found) THEN [st |-> "UB", node |-> node]
                      ELSE IF IsEnd(h, p, found + 1) THEN IncClimb(h, node_, p)
                      ELSE IncDescend(h, h[p].children[found + 1])
             ELSE IncClimb(h, node_, p)

\* Variant of operator++ without the test for the sentinel.
Incr_NoEndCheck(h, node_) == IncClimb(h, node_, node_)

\* operator++ on an iterator with node_ = node_.
Incr(h, node_) ==
    IF h[node_].sym = MaxSymbol THEN [st |-> "OutOfRange", node |-> node_]
    ELSE IncClimb(h, node_, node_)

RECURSIVE DecDown(_, _, _)
\* "Shift down" loops of operator--: back() of an empty children_ is undefined.
DecDown(h, node_, node) ==
    IF h[node].is_leaf /\ node # node_ THEN [st |-> "none", node |-> node]
    ELSE IF h[node].children = <<>> THEN [st |-> "UB", node |-> node]
    ELSE DecDown(h, node_, h[node].children[Len(h[node].children)])

RECURSIVE DecLeft(_, _, _)
\* "Shift left" loop of operator--.
DecLeft(h, node_, node) ==
    IF h[node].parent = Null THEN [st |-> "OutOfRange", node |-> node_]
    ELSE LET p == h[node].parent
         IN  IF Len(h[p].children) > 1
             THEN LET prev_child == find_by_key(h, p, h[node].sym)
                  IN  IF prev_child = 1 THEN DecLeft(h, node_, p)
                      ELSE DecDown(h, node_, h[p].children[prev_child - 1])
             ELSE DecLeft(h, node_, p)

\* Variant of operator-- without the first "shift down" into the children.
Decr_NoShiftDown(h, node_) == DecLeft(h, node_, node_)

\* operator-- on an iterator with node_ = node_.
Decr(h, node_) ==
    IF h[node_].children # <<>> THEN DecDown(h, node_, node_)
    ELSE DecLeft(h, node_, node_)

RECURSIVE LongestScan_LastTie(_, _, _, _, _)
\* Variant of LongestScan that compares with >= and so keeps the last tie.
LongestScan_LastTie(h, top, iter, max_length, long_iter) ==
    IF iter = EndOf(h, top) THEN [st |-> "none", node |-> long_iter]
    ELSE LET length == Len(KeyOf(h, iter))
             longer == length >= max_length
             next == Incr(h, iter)
         IN  IF next.st # "none" THEN [st |-> next.st, node |-> long_iter]
             ELSE LongestScan_LastTie(h, top, next.node,
                                      IF longer THEN length ELSE max_length,
                                      IF longer THEN iter ELSE long_iter)

RECURSIVE LongestScan(_, _, _, _, _)
\* The for loop of find_longest_prefix: iter runs from begin() to end().
LongestScan(h, top, iter, max_length, long_iter) ==
    IF iter = EndOf(h, top) THEN [st |-> "none", node |-> long_iter]
    ELSE LET length == Len(KeyOf(h, iter))
             longer == length > max_length
             next == Incr(h, iter)
         IN  IF next.st # "none" THEN [st |-> next.st, node |-> long_iter]
             ELSE LongestScan(h, top, next.node,
                              IF longer THEN length ELSE max_length,
                              IF longer THEN iter ELSE long_iter)

find_longest_prefix(h, top) ==
    LongestScan(h, top, Begin(h, top), 0, EndOf(h, top))

(* ------------------------------------------------------ copy, clear, swap *)
RECURSIVE CopyNode(_, _, _, _)
\* trie_node(const trie_node& oth): the nodes of the copy of oth, allocated at
\* `self` with parent_ `parent` (the constructor itself leaves parent_ null and
\* the copying parent sets it right after).
CopyNode(h, oth, self, parent) ==
    LET kid(i) == NewId(self, h[h[oth].children[i]].sym)
        n == Len(h[oth].children)
        me == self :> [sym |-> h[oth].sym, val |-> h[oth].val,
                       is_leaf |-> h[oth].is_leaf, parent |-> parent,
                       children |-> [i \in 1..n |-> kid(i)]]
        RECURSIVE Kids(_)
        Kids(i) == IF i > n THEN me
                   ELSE CopyNode(h, h[oth].children[i], kid(i), self) @@ Kids(i + 1)
    IN  Kids(1)

UsedSlots(h) == DOMAIN h \cap Slots

FreeSlot(h) == CHOOSE s \in Slots \ UsedSlots(h) : \A t \in Slots \ UsedSlots(h) : s <= t

\* Variant of clear that deletes and reinstalls the sentinel only.
clear_OnlySentinel(h, top) ==
    LET n == Len(h[top].children)
        h1 == DeleteNode(h, h[top].children[n])
    IN  create_end_prefix([h1 EXCEPT ![top].children = SubSeq(@, 1, n - 1)], top)

\* clear(): delete every child of top_, then create_end_prefix().
clear(h, top) ==
    LET dead == UNION {Subtree(h, h[top].children[i]) : i \in 1..Len(h[top].children)}
        h1 == [m \in (DOMAIN h \ dead) |-> h[m]]
    IN  create_end_prefix([h1 EXCEPT ![top].children = <<>>], top)

RECURSIVE RootOf(_, _)
RootOf(h, n) == IF h[n].parent = Null THEN n ELSE RootOf(h, h[n].parent)

(* ----------------------------------------------------------- the program *)
NoGv == [ret |-> FALSE, out |-> DefaultValue]

Constructed(c) == cont[c].top # Null

\* The caller has no thrown exception or get_value result left to handle.
Idle == err = "none" /\ gv = NoGv

\* Nodes that spell keys: every node but the roots and the sentinels.
RealNodes(h) == {n \in DOMAIN h : h[n].parent # Null /\ h[n].sym # MaxSymbol}

\* The model's node budget: MaxNodes while one container exists, MaxNodesCopy
\* for two.
Budget == IF Constructed("B") THEN MaxNodesCopy ELSE MaxNodes

\* The iterator register refers to a live node of container c's tree.
ItIn(c) == it # Null /\ it \in DOMAIN heap /\ RootOf(heap, it) = cont[c].top

\* One container, default-constructed.
Init ==
    /\ heap = NewTrie(<<>>, 1)
    /\ cont = [c \in Containers |->
                 IF c = "A" THEN [top |-> 1, size |-> 0]
                 ELSE [top |-> Null, size |-> 0]]
    /\ it = Null
    /\ err = "none"
    /\ gv = NoGv
    /\ ktDefault = TRUE
    /\ copies = 0

\* it = c.insert({key, value}); a throw leaves the caller's iterator as it was.
Insert(c, key, value) ==
    /\ Idle
    /\ Constructed(c)
    /\ \E r \in {insert(heap, cont[c].top, cont[c].size, key, value)} :
           /\ Cardinality(RealNodes(r.heap)) <= Budget
           /\ r.size <= MaxSize
           /\ heap' = r.heap
           /\ cont' = [cont EXCEPT ![c].size = r.size]
           /\ err' = r.err
           /\ it' = IF r.err = "none" THEN r.node ELSE it
    /\ gv' = NoGv
    /\ UNCHANGED <<ktDefault, copies>>

\* it = c.find(key)
DoFind(c, key) ==
    /\ Idle
    /\ Constructed(c)
    /\ it' = Find(heap, cont[c].top, key)
    /\ err' = "none"
    /\ gv' = NoGv
    /\ UNCHANGED <<heap, cont, ktDefault, copies>>

\* it = c.begin()
DoBegin(c) ==
    /\ Idle
    /\ Constructed(c)
    /\ it' = Begin(heap, cont[c].top)
    /\ err' = "none"
    /\ gv' = NoGv
    /\ UNCHANGED <<heap, cont, ktDefault, copies>>

\* it = c.end()
DoEnd(c) ==
    /\ Idle
    /\ Constructed(c)
    /\ it' = EndOf(heap, cont[c].top)
    /\ err' = "none"
    /\ gv' = NoGv
    /\ UNCHANGED <<heap, cont, ktDefault, copies>>

\* ok = c.get_value(key, out) with the caller's out holding out0 before the call.
GetValue(c, key, out0) ==
    /\ Idle
    /\ Constructed(c)
    /\ gv' = get_value(heap, cont[c].top, key, out0)
    /\ err' = "none"
    /\ UNCHANGED <<heap, cont, it, ktDefault, copies>>

\* it = c.find_longest_prefix()
FindLongest(c) ==
    /\ Idle
    /\ Constructed(c)
    /\ \E r \in {find_longest_prefix(heap, cont[c].top)} :
           /\ err' = r.st
           /\ it' = IF r.st = "UB" THEN Null ELSE r.node
    /\ gv' = NoGv
    /\ UNCHANGED <<heap, cont, ktDefault, copies>>

\* c.erase(it) for an iterator at a stored entry of c; the iterator is invalidated.
\* size_ is kept within 0..MaxSize (it can only leave that range, by wrapping
\* below 0, once two containers share a tree).
Erase(c) ==
    /\ Idle
    /\ Constructed(c)
    /\ ItIn(c)
    /\ heap[it].is_leaf
    /\ it # EndOf(heap, cont[c].top)
    /\ \E r \in {erase(heap, cont[c].size, it)} :
           /\ r.size >= 0
           /\ heap' = r.heap
           /\ cont' = [cont EXCEPT ![c].size = r.size]
           /\ err' = IF r.ub THEN "UB" ELSE "none"
    /\ it' = Null
    /\ gv' = NoGv
    /\ UNCHANGED <<ktDefault, copies>>

\* it.advance(sub_key) for an iterator at a stored entry or at end().
Advance(sub_key) ==
    /\ Idle
    /\ it # Null
    /\ it \in DOMAIN heap
    /\ heap[it].is_leaf
    /\ \E r \in {advance(heap, it, sub_key)} :
           /\ heap' = r.heap
           /\ err' = r.err
           /\ it' = r.node
    /\ gv' = NoGv
    /\ UNCHANGED <<cont, ktDefault, copies>>

\* ++it
Increment ==
    /\ Idle
    /\ it # Null
    /\ it \in DOMAIN heap
    /\ \E r \in {Incr(heap, it)} :
           /\ err' = r.st
           /\ it' = IF r.st = "UB" THEN Null ELSE r.node
    /\ gv' = NoGv
    /\ UNCHANGED <<heap, cont, ktDefault, copies>>

\* --it
Decrement ==
    /\ Idle
    /\ it # Null
    /\ it \in DOMAIN heap
    /\ \E r \in {Decr(heap, it)} :
           /\ err' = r.st
           /\ it' = IF r.st = "UB" THEN Null ELSE r.node
    /\ gv' = NoGv
    /\ UNCHANGED <<heap, cont, ktDefault, copies>>

\* c.clear(); iterators into c are invalidated.
Clear(c) ==
    /\ Idle
    /\ Constructed(c)
    /\ heap' = clear(heap, cont[c].top)
    /\ cont' = [cont EXCEPT ![c].size = 0]
    /\ it' = IF ItIn(c) THEN Null ELSE it
    /\ err' = "none"
    /\ gv' = NoGv
    /\ UNCHANGED <<ktDefault, copies>>

\* The caller handles what the last call threw or returned, before its next call.
Return ==
    /\ ~Idle
    /\ err' = "none"
    /\ gv' = NoGv
    /\ UNCHANGED <<heap, cont, it, ktDefault, copies>>

Next ==
    \/ \E c \in Containers, key \in Keys, value \in Values : Insert(c, key, value)
    \/ \E c \in Containers, key \in Keys : DoFind(c, key)
    \/ \E c \in Containers : DoBegin(c)
    \/ \E c \in Containers : DoEnd(c)
    \/ \E c \in Containers, key \in Keys, out0 \in AllValues : GetValue(c, key, out0)
    \/ \E c \in Containers : FindLongest(c)
    \/ \E c \in Containers : Erase(c)
    \/ \E sub_key \in Keys : Advance(sub_key)
    \/ Increment
    \/ Decrement
    \/ \E c \in Containers : Clear(c)
    \/ Return

Spec == Init /\ [][Next]_vars

(* ------------------------------------- without advance and without copies *)
\* The calls of a caller that never relocates an entry with advance.
NextBasic ==
    \/ \E c \in Containers, key \in Keys, value \in Values : Insert(c, key, value)
    \/ \E c \in Containers, key \in Keys : DoFind(c, key)
    \/ \E c \in Containers : DoBegin(c)
    \/ \E c \in Containers : DoEnd(c)
    \/ \E c \in Containers : Erase(c)
    \/ Increment
    \/ Decrement
    \/ \E c \in Containers : Clear(c)
    \/ Return

SpecBasic == Init /\ [][NextBasic]_vars

(* ------------------------------------------------------ two containers *)
\* trie c(d): copy construction of c from d.
CopyConstruct(c, d) ==
    /\ Idle
    /\ copies < MaxCopies
    /\ copies' = copies + 1
    /\ ~Constructed(c)
    /\ Constructed(d)
    /\ Slots \ UsedSlots(heap) # {}
    /\ \E new_top \in {FreeSlot(heap)} :
           /\ heap' = heap @@ CopyNode(heap, cont[d].top, new_top, Null)
           /\ cont' = [cont EXCEPT ![c] = [top |-> new_top, size |-> cont[d].size]]
    /\ Cardinality(RealNodes(heap')) <= MaxNodesCopy
    /\ UNCHANGED <<it, err, gv, ktDefault>>

\* trie& operator=(const trie<T>& rhs): copy, swap, delete the old tree.
assign(h, this, rhs) ==
    IF this.top = rhs.top THEN [heap |-> h, this |-> this]
    ELSE LET new_top == FreeSlot(h)
             h1 == h @@ CopyNode(h, rhs.top, new_top, Null)
         IN  [heap |-> DeleteNode(h1, this.top),
              this |-> [top |-> new_top, size |-> rhs.size]]

\* c = d.  trie<T> names trie<T, wchar_t>: for any other KeyType the operator=
\* above is no copy assignment operator and c = d is the implicit memberwise
\* assignment of top_ and size_.
CopyAssign(c, d) ==
    /\ Idle
    /\ copies < MaxCopies
    /\ copies' = copies + 1
    /\ Constructed(c)
    /\ Constructed(d)
    /\ c # d
    /\ IF ktDefault
       THEN /\ Slots \ UsedSlots(heap) # {}
            /\ \E r \in {assign(heap, cont[c], cont[d])} :
                   /\ heap' = r.heap
                   /\ cont' = [cont EXCEPT ![c] = r.this]
            /\ it' = IF it \in DOMAIN heap' THEN it ELSE Null
       ELSE /\ cont' = [cont EXCEPT ![c] = cont[d]]
            /\ UNCHANGED <<heap, it>>
    /\ Cardinality(RealNodes(heap')) <= MaxNodesCopy
    /\ UNCHANGED <<err, gv, ktDefault>>

\* c.swap(d)
SwapTries(c, d) ==
    /\ Idle
    /\ copies < MaxCopies
    /\ copies' = copies + 1
    /\ Constructed(c)
    /\ Constructed(d)
    /\ c # d
    /\ cont' = [cont EXCEPT ![c] = cont[d], ![d] = cont[c]]
    /\ UNCHANGED <<heap, it, err, gv, ktDefault>>

\* As Init, for either instantiation of KeyType (the default one or another).
InitCopy ==
    /\ heap = NewTrie(<<>>, 1)
    /\ cont = [c \in Containers |->
                 IF c = "A" THEN [top |-> 1, size |-> 0]
                 ELSE [top |-> Null, size |-> 0]]
    /\ it = Null
    /\ err = "none"
    /\ gv = NoGv
    /\ ktDefault \in BOOLEAN
    /\ copies = 0

NextCopy ==
    \/ \E c \in Containers, key \in Keys, value \in Values : Insert(c, key, value)
    \/ \E c \in Containers, key \in Keys : DoFind(c, key)
    \/ \E c \in Containers : Erase(c)
    \/ \E sub_key \in Keys : Advance(sub_key)
    \/ \E c \in Containers : Clear(c)
    \/ Return
    \/ \E c \in Containers, d \in Containers : CopyConstruct(c, d)
    \/ \E c \in Containers, d \in Containers : CopyAssign(c, d)
    \/ \E c \in Containers, d \in Containers : SwapTries(c, d)

SpecCopy == InitCopy /\ [][NextCopy]_vars

(* ------------------------------------------------- vocabulary of the claims *)
\* The child of n that carries sym, found by inspection of every child.
ChildWith(h, n, sym) ==
    LET hits == {i \in 1..Len(h[n].children) : h[h[n].children[i]].sym = sym}
    IN  IF hits = {} THEN Null ELSE h[n].children[CHOOSE i \in hits : TRUE]

RECURSIVE NodeAtFrom(_, _, _, _)
NodeAtFrom(h, n, k, i) ==
    IF i > Len(k) THEN n
    ELSE LET ch == ChildWith(h, n, k[i])
         IN  IF ch = Null THEN Null ELSE NodeAtFrom(h, ch, k, i + 1)

\* The node spelled by key k below the root top, or Null.
NodeAt(h, top, k) == NodeAtFrom(h, top, k, 1)

\* Key k is a stored entry of the tree rooted at top.
Stored(h, top, k) ==
    k # <<>> /\ NodeAt(h, top, k) # Null /\ h[NodeAt(h, top, k)].is_leaf

StoredKeys(h, top) == {k \in Keys : Stored(h, top, k)}

ValueAt(h, top, k) == h[NodeAt(h, top, k)].val

\* find(k) succeeds and the entry found carries value v.
Finds(h, top, k, v) ==
    /\ Find(h, top, k) # EndOf(h, top)
    /\ h[Find(h, top, k)].val = v

Live == {c \in Containers : Constructed(c)}

IsPrefix(p, k) == Len(p) <= Len(k) /\ SubSeq(k, 1, Len(p)) = p

(* ------------------------------------------------------------------- C1 *)
InsertNewOK(top, size, k, v) ==
    LET r == insert(heap, top, size, k, v)
    IN  /\ r.err = "none"
        /\ Finds(r.heap, top, k, v)
        /\ r.size = size + 1
        /\ r.node = Find(r.heap, top, k)
        /\ KeyOf(r.heap, r.node) = k
        /\ r.heap[r.node].val = v

\* C1: in every reachable state, for every non-empty key k that is not stored
\* and every value v, insert(k, v) succeeds, find(k) then yields v, size() is
\* one greater, and the returned iterator refers to that entry (key() = k,
\* value v), whether k ends at a new node or at a promoted internal node.
C1_InsertNew ==
    Idle => \A c \in Live : \A k \in NonEmptyKeys : \A v \in Values :
        ~Stored(heap, cont[c].top, k) => InsertNewOK(cont[c].top, cont[c].size, k, v)

\* An insert has just promoted an internal node: the iterator it returned is
\* at a stored entry that has children and holds an inserted value, and another
\* insert has just created a chain of two nodes.
C1_Witness ==
    /\ Idle
    /\ it # Null
    /\ \E c \in Live :
          /\ Stored(heap, cont[c].top, <<1>>)
          /\ it = NodeAt(heap, cont[c].top, <<1>>)
          /\ heap[it].children # <<>>
          /\ heap[it].val = 2
          /\ Stored(heap, cont[c].top, <<1, 2>>)
          /\ cont[c].size = 2

(* ------------------------------------------------------------------- C2 *)
EraseOK(top, size, k) ==
    LET r == erase(heap, size, Find(heap, top, k))
    IN  /\ ~r.ub
        /\ Find(r.heap, top, k) = EndOf(r.heap, top)
        /\ r.size = size - 1
        /\ \A k2 \in StoredKeys(heap, top) \ {k} :
              Finds(r.heap, top, k2, ValueAt(heap, top, k2))

\* C2: in every reachable state, for every stored key k, after erase(find(k))
\* find(k) is end(), size() is one less, and every other stored key (prefixes
\* of k, extensions of k, keys sharing a prefix with k) is still found with its
\* original value.
C2_Erase ==
    Idle => \A c \in Live : \A k \in StoredKeys(heap, cont[c].top) :
        EraseOK(cont[c].top, cont[c].size, k)

\* An erase has just pruned a branch below a node that stays: key <<1>> is
\* stored without children left, key <<2, 1>> is stored below a non-leaf node,
\* and the erasing iterator is gone.
C2_Witness ==
    /\ Idle
    /\ it = Null
    /\ \E c \in Live :
          /\ StoredKeys(heap, cont[c].top) = {<<1>>, <<2, 1>>}
          /\ heap[NodeAt(heap, cont[c].top, <<1>>)].children = <<>>
          /\ cont[c].size = 2

(* -------------------------------------------------------------- C3, C5 *)
RECURSIVE IncrWalk(_, _, _, _)
\* The nodes visited by ++ from n until end(); Null marks a ++ that fails or
\* a walk longer than fuel steps.
IncrWalk(h, top, n, fuel) ==
    IF n = EndOf(h, top) THEN <<>>
    ELSE IF fuel = 0 THEN <<Null>>
    ELSE LET r == Incr(h, n)
         IN  IF r.st # "none" THEN <<n, Null>>
             ELSE <<n>> \o IncrWalk(h, top, r.node, fuel - 1)

Forward(h, top) == IncrWalk(h, top, Begin(h, top), Cardinality(DOMAIN h))

RECURSIVE DecrWalk(_, _, _, _)
\* The nodes visited by -- from n (n excluded) until begin() is reached.
DecrWalk(h, top, n, fuel) ==
    IF n = Begin(h, top) THEN <<>>
    ELSE IF fuel = 0 THEN <<Null>>
    ELSE LET r == Decr(h, n)
         IN  IF r.st # "none" THEN <<Null>>
             ELSE <<r.node>> \o DecrWalk(h, top, r.node, fuel - 1)

Backward(h, top) == DecrWalk(h, top, EndOf(h, top), Cardinality(DOMAIN h))

Reverse(s) == [i \in 1..Len(s) |-> s[Len(s) + 1 - i]]

ForwardKeys(h, top) ==
    LET f == Forward(h, top)
    IN  [i \in 1..Len(f) |-> IF f[i] = Null THEN <<MaxSymbol>> ELSE KeyOf(h, f[i])]

\* a and b differ first at a position where a's symbol is the smaller one.
SymbolLess(a, b) ==
    \E i \in 1..Len(a) :
        /\ i <= Len(b)
        /\ SubSeq(a, 1, i - 1) = SubSeq(b, 1, i - 1)
        /\ a[i] < b[i]

\* Lexicographic order: a proper prefix sorts before its extensions.
LexLess(a, b) == a # b /\ (IsPrefix(a, b) \/ SymbolLess(a, b))

\* Post-order: a proper prefix sorts after its extensions.
PostLess(a, b) == a # b /\ (IsPrefix(b, a) \/ SymbolLess(a, b))

\* C3 as claimed: ++ from begin() to end() yields all stored keys, each once,
\* in strictly ascending lexicographic order (a proper prefix before its
\* extensions), and begin() is the lexicographically smallest stored key.
C3_LexAscending ==
    Idle => \A c \in Live :
        LET ks == ForwardKeys(heap, cont[c].top)
        IN  /\ {ks[i] : i \in 1..Len(ks)} = StoredKeys(heap, cont[c].top)
            /\ \A i \in 1..(Len(ks) - 1) : LexLess(ks[i], ks[i + 1])

\* C3 amended: ++ from begin() to end() yields all stored keys, each once, in
\* strictly ascending post-order: keys that differ at a symbol are ordered by
\* that symbol, and a key that is a proper prefix of another stored key comes
\* after it; begin() is the first stored key in that order.
C3_PostOrder ==
    Idle => \A c \in Live :
        LET ks == ForwardKeys(heap, cont[c].top)
            first == Begin(heap, cont[c].top)
        IN  /\ {ks[i] : i \in 1..Len(ks)} = StoredKeys(heap, cont[c].top)
            /\ \A i \in 1..(Len(ks) - 1) : PostLess(ks[i], ks[i + 1])
            /\ StoredKeys(heap, cont[c].top) # {} =>
                  /\ KeyOf(heap, first) \in StoredKeys(heap, cont[c].top)
                  /\ \A k \in StoredKeys(heap, cont[c].top) \ {KeyOf(heap, first)} :
                        PostLess(KeyOf(heap, first), k)
            /\ StoredKeys(heap, cont[c].top) = {} => first = EndOf(heap, cont[c].top)

\* A traversal over a stored prefix and its extensions together with a sibling
\* branch: <<1, 1>>, <<1, 2>>, <<1>> are stored and the iterator has been
\* stepped by ++ from <<1, 2>> onto <<1>>.
C3_Witness ==
    /\ Idle
    /\ \E c \in Live :
          /\ StoredKeys(heap, cont[c].top) = {<<1>>, <<1, 1>>, <<1, 2>>}
          /\ ForwardKeys(heap, cont[c].top) = << <<1, 1>>, <<1, 2>>, <<1>> >>
          /\ it = NodeAt(heap, cont[c].top, <<1>>)

\* C5: -- from end() to begin() yields the exact reverse of the ++ sequence
\* from begin() to end(); for every stored entry e, ++ then -- returns to e,
\* and when e is not begin(), -- then ++ returns to e.
C5_Reverse ==
    Idle => \A c \in Live :
        LET f == Forward(heap, cont[c].top)
        IN  /\ Backward(heap, cont[c].top) = Reverse(f)
            /\ \A i \in 1..Len(f) :
                  /\ f[i] # Null
                  /\ Incr(heap, f[i]).st = "none"
                  /\ Decr(heap, Incr(heap, f[i]).node) = [st |-> "none", node |-> f[i]]
                  /\ f[i] # Begin(heap, cont[c].top) =>
                        /\ Decr(heap, f[i]).st = "none"
                        /\ Incr(heap, Decr(heap, f[i]).node) = [st |-> "none", node |-> f[i]]

\* The iterator has been stepped back by -- from end() onto a stored entry
\* that has children, in a container that also holds an extension of it and a
\* key in an earlier branch.
C5_Witness ==
    /\ Idle
    /\ \E c \in Live :
          /\ StoredKeys(heap, cont[c].top) = {<<1>>, <<2>>, <<2, 1>>}
          /\ it = NodeAt(heap, cont[c].top, <<2>>)
          /\ Backward(heap, cont[c].top) =
                <<NodeAt(heap, cont[c].top, <<2>>), NodeAt(heap, cont[c].top, <<2, 1>>),
                  NodeAt(heap, cont[c].top, <<1>>)>>

(* ------------------------------------------------------------------- C4 *)
\* Nodes of the tree rooted at top whose leaf flag is set, the sentinel excluded.
LeafNodes(h, top) ==
    {n \in Subtree(h, top) : h[n].is_leaf /\ n # EndOf(h, top)}

\* C4: in every reachable state size() equals the number of nodes whose leaf
\* flag is set, the sentinel not counted; equivalently the number of keys k
\* for which find(k) is not end().
C4_SizeIsLeafCount ==
    Idle => \A c \in Live :
        /\ cont[c].size = Cardinality(LeafNodes(heap, cont[c].top))
        /\ cont[c].size =
              Cardinality({k \in Keys : Find(heap, cont[c].top, k) # EndOf(heap, cont[c].top)})

(* ------------------------------------------------------------------- C6 *)
\* Keys a caller may look up: any symbol of KeyType, the sentinel's included.
AnyKeys == SeqsUpTo(1..MaxSymbol, MaxKeyLen)

\* C6: find(k) returns the node spelled by k if that node exists and has its
\* leaf flag set, and end() otherwise (a symbol without matching child, the
\* empty key, or a key matched up to an internal non-leaf node);
\* get_value(k, out) returns false exactly when find(k) is end() and otherwise
\* true with out set to the stored value.
C6_FindExact ==
    Idle => \A c \in Live : \A k \in AnyKeys :
        LET top == cont[c].top
            n == NodeAt(heap, top, k)
            hit == k # <<>> /\ n # Null /\ heap[n].is_leaf
        IN  /\ Find(heap, top, k) = IF hit THEN n ELSE EndOf(heap, top)
            /\ \A out0 \in AllValues :
                  get_value(heap, top, k, out0) =
                     IF hit /\ n # EndOf(heap, top)
                     THEN [ret |-> TRUE, out |-> heap[n].val]
                     ELSE [ret |-> FALSE, out |-> out0]

\* get_value has just returned true with a stored value while the container
\* also holds an internal non-leaf prefix node, for which find is end().
C6_Witness ==
    /\ gv = [ret |-> TRUE, out |-> 2]
    /\ \E c \in Live :
          /\ StoredKeys(heap, cont[c].top) = {<<1, 2>>}
          /\ ValueAt(heap, cont[c].top, <<1, 2>>) = 2
          /\ Find(heap, cont[c].top, <<1>>) = EndOf(heap, cont[c].top)

(* ------------------------------------------------------------------- C7 *)
\* C7: find_longest_prefix() returns end() when no entry is stored, and
\* otherwise an iterator to a stored entry of maximal key length; among several
\* stored keys of that length, the first one in ascending key order.
C7_Longest ==
    Idle => \A c \in Live :
        LET top == cont[c].top
            S == StoredKeys(heap, top)
            r == find_longest_prefix(heap, top)
        IN  /\ r.st = "none"
            /\ S = {} => r.node = EndOf(heap, top)
            /\ S # {} =>
                  /\ r.node # EndOf(heap, top)
                  /\ KeyOf(heap, r.node) \in S
                  /\ \A k \in S \ {KeyOf(heap, r.node)} :
                        \/ Len(k) < Len(KeyOf(heap, r.node))
                        \/ /\ Len(k) = Len(KeyOf(heap, r.node))
                           /\ LexLess(KeyOf(heap, r.node), k)

\* The iterator is at the result of find_longest_prefix() in a container with
\* two longest keys and a shorter one that is traversed after them.
C7_Witness ==
    /\ Idle
    /\ \E c \in Live :
          /\ StoredKeys(heap, cont[c].top) = {<<1>>, <<1, 1>>, <<1, 2>>}
          /\ it = find_longest_prefix(heap, cont[c].top).node
          /\ it = NodeAt(heap, cont[c].top, <<1, 1>>)

(* ------------------------------------------------------------------- C8 *)
\* C8: for every stored key k, insert(k, v2) fails with the duplicate-key
\* error and mutates nothing: size() is unchanged, find(k) still yields the
\* original value, no node is created and no leaf flag changes.
C8_Duplicate ==
    Idle => \A c \in Live : \A k \in StoredKeys(heap, cont[c].top) : \A v2 \in Values :
        LET top == cont[c].top
            r == insert(heap, top, cont[c].size, k, v2)
        IN  /\ r.err = "DuplicateKey"
            /\ r.size = cont[c].size
            /\ r.heap = heap
            /\ Finds(r.heap, top, k, ValueAt(heap, top, k))

\* An insert of a stored key has just thrown, for a key stored with value 1.
C8_Witness ==
    /\ err = "DuplicateKey"
    /\ \E c \in Live :
          /\ StoredKeys(heap, cont[c].top) = {<<1>>, <<1, 2>>}
          /\ ValueAt(heap, cont[c].top, <<1>>) = 1
          /\ ValueAt(heap, cont[c].top, <<1, 2>>) = 1

(* ------------------------------------------------------------------ C10 *)
AdvanceOK(top, k, s) ==
    LET from == NodeAt(heap, top, k)
        to == NodeAt(heap, top, k \o s)
        r == advance(heap, from, s)
    IN  /\ r.err = "none"
        /\ r.node = to
        /\ DOMAIN r.heap = DOMAIN heap
        /\ r.heap[from] = [heap[from] EXCEPT !.is_leaf = FALSE]
        /\ r.heap[to] = [heap[to] EXCEPT !.is_leaf = TRUE]
        /\ \A n \in DOMAIN heap \ {from, to} : r.heap[n] = heap[n]
        /\ Find(r.heap, top, k) = EndOf(r.heap, top)
        /\ Find(r.heap, top, k \o s) = to
        /\ \A k2 \in StoredKeys(heap, top) \ {k, k \o s} :
              Finds(r.heap, top, k2, ValueAt(heap, top, k2))

\* C10: for an iterator at stored key k and a non-empty subkey s whose path
\* exists below k's node, advance(s) clears the leaf flag of k's node, sets the
\* one of the node spelled by k followed by s and moves the iterator there, so
\* find(k) is end() and find(k+s) is not; no other leaf flag, value, parent or
\* children change, and every other stored key is found with its value.
C10_Advance ==
    Idle => \A c \in Live : \A k \in StoredKeys(heap, cont[c].top) : \A s \in NonEmptyKeys :
        NodeAt(heap, cont[c].top, k \o s) # Null => AdvanceOK(cont[c].top, k, s)

\* advance has just moved an entry onto an internal node that never held a
\* value: the iterator is at a stored entry with the default value, below a
\* node whose leaf flag is clear, and the entry below it is still stored.
C10_Witness ==
    /\ Idle
    /\ it # Null
    /\ \E c \in Live :
          /\ it = NodeAt(heap, cont[c].top, <<1, 2>>)
          /\ heap[it].val = DefaultValue
          /\ ~heap[heap[it].parent].is_leaf
          /\ StoredKeys(heap, cont[c].top) = {<<1, 2>>, <<1, 2, 1>>}

(* ------------------------------------------------------------------- C9 *)
\* The node tree of a container: every node below top with all its fields.
TreeView(h, top) == [n \in Subtree(h, top) |-> h[n]]

\* The stored keys with their values.
Entries(h, top) == [k \in StoredKeys(h, top) |-> ValueAt(h, top, k)]

\* Container d is untouched by a call on another container that turns the
\* heap into h2.
Untouched(h2, d) ==
    /\ Subtree(heap, cont[d].top) \subseteq DOMAIN h2
    /\ TreeView(h2, cont[d].top) = TreeView(heap, cont[d].top)
    /\ Entries(h2, cont[d].top) = Entries(heap, cont[d].top)

\* C9: a container made from another by copy construction or copy assignment
\* holds the same keys, values and size, shares no node with it (the sentinel
\* included), and insert, erase, advance and clear applied to one of the two
\* leave the keys, values, size and node tree of the other unchanged.
C9_DeepCopy ==
    Idle =>
      /\ \A d \in Live :
            Slots \ UsedSlots(heap) # {} =>
               LET new_top == FreeSlot(heap)
                   copy == CopyNode(heap, cont[d].top, new_top, Null)
               IN  /\ DOMAIN copy \cap DOMAIN heap = {}
                   /\ Entries(heap @@ copy, new_top) = Entries(heap, cont[d].top)
      /\ \A c \in Live : \A d \in Live \ {c} :
            LET top == cont[c].top
            IN  /\ Subtree(heap, top) \cap Subtree(heap, cont[d].top) = {}
                /\ \A k \in NonEmptyKeys : \A v \in Values :
                      Untouched(insert(heap, top, cont[c].size, k, v).heap, d)
                /\ \A k \in StoredKeys(heap, top) :
                      /\ Untouched(erase(heap, cont[c].size, NodeAt(heap, top, k)).heap, d)
                      /\ \A s \in Keys :
                            Untouched(advance(heap, NodeAt(heap, top, k), s).heap, d)
                /\ Untouched(clear(heap, top), d)

(* ------------------------------------------------------------------ C11 *)
\* C11: ++ on an iterator equal to end() fails with the out-of-range error and
\* -- on an iterator equal to begin() (begin() = end() of an empty container
\* included) fails with the out-of-range error; in both cases the iterator
\* still refers to the same node (neither operator writes to a node or to the
\* container: the only thing it returns is the iterator's node).
C11_OutOfRange ==
    Idle => \A c \in Live :
        LET top == cont[c].top
        IN  /\ Incr(heap, EndOf(heap, top)) =
                  [st |-> "OutOfRange", node |-> EndOf(heap, top)]
            /\ Decr(heap, Begin(heap, top)) =
                  [st |-> "OutOfRange", node |-> Begin(heap, top)]

\* -- has just thrown on begin() of a container with three entries, one of them
\* a stored prefix: the iterator is still at the first entry, <<1, 1>>.
C11_Witness ==
    /\ err = "OutOfRange"
    /\ \E c \in Live :
          /\ StoredKeys(heap, cont[c].top) = {<<1>>, <<1, 1>>, <<2>>}
          /\ it = Begin(heap, cont[c].top)
          /\ it = NodeAt(heap, cont[c].top, <<1, 1>>)

(* ------------------------------------------------------------------ C12 *)
\* Nodes an iterator can be at: the stored entries and the sentinel.
IterNodes(h, top) == {n \in Subtree(h, top) : h[n].is_leaf}

\* C12: for an iterator at any stored entry or at end(), advance(s) fails with
\* the empty-subkey error when s is empty and with the no-such-prefix error
\* when the path s does not exist below the iterator's node (also when only a
\* proper prefix of s exists); on failure no node changes (no leaf flag) and
\* the iterator still refers to its node.  advance never touches size().
C12_AdvanceFails ==
    Idle => \A c \in Live : \A n \in IterNodes(heap, cont[c].top) :
        /\ advance(heap, n, <<>>) = [err |-> "EmptySubkey", heap |-> heap, node |-> n]
        /\ \A s \in AnyKeys \ {<<>>} :
              NodeAtFrom(heap, n, s, 1) = Null =>
                 advance(heap, n, s) = [err |-> "NoSuchPrefix", heap |-> heap, node |-> n]

\* advance has just thrown the no-such-prefix error for an iterator at the
\* stored key <<1>>, below which only the path <<2>> exists.
C12_Witness ==
    /\ err = "NoSuchPrefix"
    /\ \E c \in Live :
          /\ StoredKeys(heap, cont[c].top) = {<<1>>, <<1, 2>>}
          /\ it = NodeAt(heap, cont[c].top, <<1>>)
          /\ heap[it].is_leaf

(* ------------------------------------------------------------------ C13 *)
\* C13: in every reachable state insert with the empty key fails with the
\* empty-key error and changes nothing: the heap (keys, values, node tree) and
\* size() are as before.
C13_EmptyKey ==
    Idle => \A c \in Live : \A v \in Values :
        insert(heap, cont[c].top, cont[c].size, <<>>, v) =
           [err |-> "EmptyKey", heap |-> heap, size |-> cont[c].size, node |-> Null]

\* insert with the empty key has just thrown on a container with two entries.
C13_Witness ==
    /\ err = "EmptyKey"
    /\ \E c \in Live :
          /\ StoredKeys(heap, cont[c].top) = {<<1>>, <<2, 1>>}
          /\ cont[c].size = 2

(* ------------------------------------------------------------------ C14 *)
\* The state clear() leaves container c in is that of a freshly constructed
\* container: the whole container state (size_ and the node tree below top_)
\* equals the one trie() builds, so every later call behaves as on a fresh one.
ClearOK(c) ==
    LET top == cont[c].top
    IN  /\ cont'[c] = [top |-> top, size |-> 0]
        /\ TreeView(heap', top) = NewTrie(<<>>, top)
        /\ Empty(heap', top)
        /\ Begin(heap', top) = EndOf(heap', top)
        /\ \A k \in AnyKeys : Find(heap', top, k) = EndOf(heap', top)
        /\ heap'[top].children = <<EndOf(heap', top)>>
        /\ heap'[EndOf(heap', top)] =
              [NewNodeRec(MaxSymbol, top) EXCEPT !.is_leaf = TRUE]

\* C14: every clear() step, from any reachable state, leaves the container
\* with size() = 0, empty() true, begin() = end(), find(k) = end() for every
\* key k, the sentinel as the root's only child, and a container state equal
\* to that of a freshly constructed container.
C14_Clear == [][\A c \in Containers : Clear(c) => ClearOK(c)]_vars

\* A container that held an entry when its copy was made is empty again with
\* size() = 0, while the copy still holds the entry.
C14_Witness ==
    /\ Idle
    /\ ktDefault
    /\ Constructed("A")
    /\ Constructed("B")
    /\ Empty(heap, cont["A"].top)
    /\ cont["A"].size = 0
    /\ Entries(heap, cont["B"].top) = (<<2>> :> 2)
    /\ cont["B"].size = 1

(* ------------------------------------------------------------------ C15 *)
\* The children of n are strictly ascending by symbol and refer back to n.
ChildrenOK(h, n) ==
    LET kids == h[n].children
    IN  /\ \A i \in 1..(Len(kids) - 1) : h[kids[i]].sym < h[kids[i + 1]].sym
        /\ \A i \in 1..Len(kids) : kids[i] \in DOMAIN h /\ h[kids[i]].parent = n

\* The last child of the root is the sentinel.
SentinelOK(h, top) ==
    /\ h[top].children # <<>>
    /\ h[top].parent = Null
    /\ LET end == h[top].children[Len(h[top].children)]
       IN  /\ h[end].sym = MaxSymbol
           /\ h[end].is_leaf
           /\ h[end].children = <<>>
           /\ EndOf(h, top) = end

\* C15: in every state reachable by insert, erase of a stored entry, advance,
\* clear and copy (key symbols below the maximum symbol), the children of every
\* node are strictly ascending by symbol without duplicates, every child's
\* parent reference is the node that holds it, and the root's last child is
\* the sentinel (maximum symbol, leaf flag set, no children), which is end().
C15_Structure ==
    \A c \in Live :
        /\ \A n \in Subtree(heap, cont[c].top) : ChildrenOK(heap, n)
        /\ SentinelOK(heap, cont[c].top)

\* The copy B received the key <<1>> after it was made with <<2>>: the new
\* child was moved in front of <<2>> and of the copied sentinel.
C15_Witness ==
    /\ Idle
    /\ Constructed("A")
    /\ Constructed("B")
    /\ cont["A"].top # cont["B"].top
    /\ StoredKeys(heap, cont["B"].top) = {<<1>>, <<2>>}
    /\ it = NodeAt(heap, cont["B"].top, <<1>>)
    /\ Len(heap[cont["B"].top].children) = 3

(* ------------------------------------------------------------------ C16 *)
\* C16: in every state reachable by insert, erase of a stored entry, advance
\* and clear, every node other than the root and the sentinel whose leaf flag
\* is clear has at least one child (erase leaves no childless non-leaf node
\* and no chain of them behind), and the root is never removed.
C16_NoDeadBranch ==
    \A c \in Live :
        /\ cont[c].top \in DOMAIN heap
        /\ heap[cont[c].top].parent = Null
        /\ \A n \in Subtree(heap, cont[c].top) \ {cont[c].top, EndOf(heap, cont[c].top)} :
              ~heap[n].is_leaf => heap[n].children # <<>>

\* erase has just removed a branch (the iterator is gone) next to an entry
\* that stays below a non-leaf node: <<2, 1>> is the only stored key, no node
\* outside its path is left, and size() is 1.
C16_Witness ==
    /\ Idle
    /\ it = Null
    /\ \E c \in Live :
          /\ StoredKeys(heap, cont[c].top) = {<<2, 1>>}
          /\ Cardinality(Subtree(heap, cont[c].top)) = 4
          /\ cont[c].size = 1

(* ------------------------------------------------------------------ C17 *)
\* The fields of a node that make the shape of the tree.
Shape(rec) == [sym |-> rec.sym, parent |-> rec.parent, is_leaf |-> rec.is_leaf,
               children |-> rec.children]

RoundTripOK(top, size, k, v) ==
    LET r == insert(heap, top, size, k, v)
        e == erase(r.heap, r.size, r.node)
    IN  /\ r.err = "none"
        /\ ~e.ub
        /\ e.size = size
        /\ DOMAIN e.heap = DOMAIN heap
        /\ \A n \in DOMAIN heap : Shape(e.heap[n]) = Shape(heap[n])
        /\ Entries(e.heap, top) = Entries(heap, top)

\* C17: for every reachable state and every non-empty key k that is not
\* stored, insert(k, v) followed by erase of the returned iterator restores the
\* container: the same stored keys with the same values, the same size() and
\* the same tree shape (the same nodes with the same symbols, parents, children
\* and leaf flags: every node the insert created is removed and no other).
C17_RoundTrip ==
    Idle => \A c \in Live : \A k \in NonEmptyKeys : \A v \in Values :
        ~Stored(heap, cont[c].top, k) => RoundTripOK(cont[c].top, cont[c].size, k, v)

\* insert(<<1>>, 2) promoted the internal node above the stored key <<1, 1>>
\* and erase of the returned iterator has just demoted it again: the key set,
\* size() and shape are as before, the node keeps the value 2 it was given.
C17_Witness ==
    /\ Idle
    /\ it = Null
    /\ \E c \in Live :
          /\ Entries(heap, cont[c].top) = (<<1, 1>> :> 1)
          /\ cont[c].size = 1
          /\ heap[NodeAt(heap, cont[c].top, <<1>>)].val = 2
          /\ Cardinality(Subtree(heap, cont[c].top)) = 4

(* ------------------------------------------------------------------ C18 *)
\* C18: in every state reachable by insert, erase of a stored entry, advance
\* and clear, ++ on an iterator at any stored entry and -- on any iterator
\* other than begin() (end() included) complete, without stepping above the
\* root or below a childless node, and leave the iterator on a node whose leaf
\* flag is set: a stored entry or, for ++ only, the sentinel; never the root or
\* an internal non-leaf node.
C18_LandOnLeaf ==
    Idle => \A c \in Live :
        LET top == cont[c].top
            end == EndOf(heap, top)
        IN  /\ \A n \in IterNodes(heap, top) \ {end} :
                  /\ Incr(heap, n).st = "none"
                  /\ Incr(heap, n).node \in IterNodes(heap, top)
            /\ \A n \in IterNodes(heap, top) \ {Begin(heap, top)} :
                  /\ Decr(heap, n).st = "none"
                  /\ Decr(heap, n).node \in IterNodes(heap, top) \ {end}

\* ++ from <<1>> has passed through the internal non-leaf node <<2>> and left
\* the iterator on the entry <<2, 1>> below it.
C18_Witness ==
    /\ Idle
    /\ \E c \in Live :
          /\ StoredKeys(heap, cont[c].top) = {<<1>>, <<2, 1>>}
          /\ it = NodeAt(heap, cont[c].top, <<2, 1>>)
          /\ it = Incr(heap, NodeAt(heap, cont[c].top, <<1>>)).node
          /\ ~heap[heap[it].parent].is_leaf

(* ------------------------------------------------------------------ C19 *)
\* C19: in every state reachable by inserts, erases of stored entries and
\* clear, ++ from begin() reaches end() after exactly size() increments and
\* visits every stored entry exactly once, the entries that still have
\* children (stored proper prefixes) included; begin() = end() when size() is 0.
C19_Complete ==
    Idle => \A c \in Live :
        LET top == cont[c].top
            f == Forward(heap, top)
        IN  /\ Len(f) = cont[c].size
            /\ \A i \in 1..Len(f) : f[i] # Null
            /\ {f[i] : i \in 1..Len(f)} = LeafNodes(heap, top)
            /\ \A i \in 1..Len(f) : \A j \in 1..Len(f) : f[i] = f[j] => i = j
            /\ {KeyOf(heap, f[i]) : i \in 1..Len(f)} = StoredKeys(heap, top)
            /\ cont[c].size = 0 => Begin(heap, top) = EndOf(heap, top)

\* The iterator has reached end() in a container with three entries, one of
\* them a stored prefix with a child, which the walk from begin() visits third.
C19_Witness ==
    /\ Idle
    /\ \E c \in Live :
          /\ cont[c].size = 3
          /\ it = EndOf(heap, cont[c].top)
          /\ ForwardKeys(heap, cont[c].top) = << <<1>>, <<2, 1>>, <<2>> >>

(* ------------------------------------------------------------------ C20 *)
\* C20: in every reachable state, empty or not, erase(end()) does not
\* dereference the root's null parent, does not remove the sentinel and leaves
\* size() and the stored keys unchanged: afterwards the root's last child is
\* still the sentinel and end() denotes it.
C20_EraseEnd ==
    Idle => \A c \in Live :
        LET top == cont[c].top
            e == erase(heap, cont[c].size, EndOf(heap, top))
        IN  /\ ~e.ub
            /\ e.size = cont[c].size
            /\ EndOf(heap, top) \in DOMAIN e.heap
            /\ SentinelOK(e.heap, top)
            /\ EndOf(e.heap, top) = EndOf(heap, top)
            /\ StoredKeys(e.heap, top) = StoredKeys(heap, top)

====
